---- MODULE Spec2Model ----
(***************************************************************************)
(* A model of the didi injector (src/unnamed/part_000): provider registry, *)
(* lazy singleton resolution with cycle detection, parent/child lookup,    *)
(* private modules and scoped re-instantiation (createChild).              *)
(*                                                                         *)
(* The program is single-threaded and synchronous, so every public call    *)
(* (get, invoke, instantiate, init, createChild, new Injector) is one      *)
(* action.  The recursion of the code is kept as recursion of operators    *)
(* that thread the whole mutable world through the calls, exceptions       *)
(* included: a result is [w, ok, val, err, chain] and a failed call        *)
(* returns the world as the throw left it.                                 *)
(***************************************************************************)
EXTENDS Integers, Sequences, FiniteSets, TLC

VARIABLES
  decls,      \* the module declarations: id -> declaration
  injectors,  \* every live Injector: parent, _providers, _instances, currentlyResolving, ...
  inject,     \* fn.$inject of every callable
  shared,     \* a module list the caller keeps and passes to createChild
  nsyn,       \* how many anonymous module objects were allocated so far
  top,        \* the module list the root injector was constructed with
  last        \* the public call in progress and what it returned or raised

vars == <<decls, injectors, inject, shared, nsyn, top, last>>

-----------------------------------------------------------------------------
(* Bounds of the exploration.                                              *)

\* call-stack depth after which the engine raises RangeError (stack overflow)
MaxDepth == 7
\* createChild calls the caller makes
MaxChildren == 2
\* dependency edges of the declaration graphs drawn in SpecDeps
MaxEdges == 4
\* stale names a resolution stack may hold before the exploration stops
MaxStale == 1

-----------------------------------------------------------------------------
(* Values.                                                                 *)

Null == [t |-> "null"]
Undef == [t |-> "undef"]
Val(n) == [t |-> "val", v |-> n]
InjRef(i) == [t |-> "inj", id |-> i]
\* an object a callable returned or constructed: identified by the injector
\* and provider name it was made for and by how many were made before it
Obj(i, site, k, fn, deps) ==
  [t |-> "obj", by |-> i, name |-> site, seq |-> k, fn |-> fn, deps |-> deps]

ApiSite == "<call>"

-----------------------------------------------------------------------------
(* Small helpers on sequences.                                             *)

InSeq(x, s) == \E k \in 1..Len(s) : s[k] = x

IndexOf(x, s) ==
  IF InSeq(x, s) THEN CHOOSE k \in 1..Len(s) : s[k] = x /\ \A j \in 1..(k-1) : s[j] # x
  ELSE 0

Range(s) == {s[k] : k \in 1..Len(s)}

Pop(s) == IF Len(s) = 0 THEN s ELSE SubSeq(s, 1, Len(s) - 1)

-----------------------------------------------------------------------------
(* Callables.  A callable is known to the engine by what the name          *)
(* extractor reads from it (its parameter names), its $scope tags and what *)
(* calling it does: return a fresh object, or throw.                       *)

Callable(params, scope, throws) ==
  [params |-> params, scope |-> scope, throws |-> throws]

Fns ==
  ("Car" :> Callable(<<"engine">>, <<>>, FALSE)) @@
  ("createPetrolEngine" :> Callable(<<"power">>, <<>>, FALSE)) @@
  ("Driver" :> Callable(<<>>, <<>>, FALSE)) @@
  ("Person" :> Callable(<<"name">>, <<>>, FALSE)) @@
  ("FnA" :> Callable(<<"b">>, <<>>, FALSE)) @@
  ("FnB" :> Callable(<<"a">>, <<>>, FALSE)) @@
  ("Exp" :> Callable(<<"d">>, <<>>, FALSE)) @@
  ("Hid" :> Callable(<<>>, <<>>, FALSE)) @@
  ("NHid" :> Callable(<<>>, <<>>, FALSE)) @@
  ("E2" :> Callable(<<>>, <<>>, FALSE)) @@
  ("UseCar" :> Callable(<<"car">>, <<>>, FALSE)) @@
  ("UseExp" :> Callable(<<"exp">>, <<>>, FALSE)) @@
  ("ReInit" :> Callable(<<"injector">>, <<>>, FALSE)) @@
  ("Broken" :> Callable(<<"nothere">>, <<>>, FALSE)) @@
  ("Boom" :> Callable(<<>>, <<>>, TRUE)) @@
  ("XE" :> Callable(<<"od">>, <<>>, FALSE)) @@
  ("EA" :> Callable(<<"inner">>, <<>>, FALSE)) @@
  ("EB" :> Callable(<<"inner">>, <<>>, FALSE)) @@
  ("Inner" :> Callable(<<>>, <<>>, FALSE)) @@
  ("Tagged" :> Callable(<<>>, <<"req">>, FALSE)) @@
  ("PlainF" :> Callable(<<>>, <<>>, FALSE)) @@
  ("UseEa" :> Callable(<<"ea">>, <<>>, FALSE)) @@
  ("UseDot" :> Callable(<<"cfg.b.c">>, <<>>, FALSE)) @@
  ("Pair" :> Callable(<<>>, <<>>, FALSE)) @@
  ("Svc" :> Callable(<<"dep">>, <<>>, FALSE)) @@
  ("Dep" :> Callable(<<>>, <<>>, FALSE)) @@
  ("UseLoc" :> Callable(<<"svc", "ghost">>, <<>>, FALSE)) @@
  ("UseGiven" :> Callable(<<"dep", "ghost">>, <<>>, FALSE)) @@
  ("OD" :> Callable(<<"xe">>, <<>>, FALSE)) @@
  ("X1" :> Callable(<<>>, <<>>, FALSE)) @@
  ("X2" :> Callable(<<>>, <<>>, FALSE)) @@
  ("X4" :> Callable(<<>>, <<>>, FALSE))

NoInject == [set |-> FALSE, names |-> <<>>]

-----------------------------------------------------------------------------
(* Module declarations.                                                    *)

\* one key of a declaration, name: [kind, payload].  The payload is a
\* callable (fn), an inline [name..., callable] pair (arr.is, arr.names, fn)
\* or a literal (value); a 'private' entry is a precomputed provider record
\* forwarding to injector pinj
Entry(name, kind, fn, value) ==
  [name |-> name, kind |-> kind, fn |-> fn, value |-> value,
   arr |-> [is |-> FALSE, names |-> <<>>], pinj |-> 0]

Factory(name, fn) == Entry(name, "factory", fn, 0)
\* name: [kind, [dep..., fn]]
Inline(name, kind, names, fn) ==
  [Entry(name, kind, fn, 0) EXCEPT !.arr = [is |-> TRUE, names |-> names]]
Type(name, fn) == Entry(name, "type", fn, 0)
Value(name, n) == Entry(name, "value", "", n)

PrivateEntry(name, p) ==
  [name |-> name, kind |-> "private", fn |-> "", value |-> 0,
   arr |-> [is |-> FALSE, names |-> <<>>], pinj |-> p]

InitName(n) == [t |-> "name", name |-> n, fn |-> "", inj |-> 0]
InitFn(f) == [t |-> "fn", name |-> "", fn |-> f, inj |-> 0]
InitChild(p) == [t |-> "initchild", name |-> "", fn |-> "", inj |-> p]

\* an __init__ function that takes the injector and calls init() on it
InitReenter(f) == [t |-> "reenter", name |-> "", fn |-> f, inj |-> 0]

Decl(keys, depends, private, exports, nested, init) ==
  [keys |-> keys, depends |-> depends, private |-> private,
   exports |-> exports, nested |-> nested, init |-> init]

Plain(keys, depends) == Decl(keys, depends, FALSE, <<>>, <<>>, <<>>)

StaticDecls ==
  ("personModule" :> Plain(<<Type("person", "Person")>>, <<>>)) @@
  ("driverModule" :> Decl(<<Type("driver", "Driver")>>, <<"personModule">>,
                          TRUE, <<"driver">>, <<>>, <<>>)) @@
  ("carModule" :> Plain(<<Type("car", "Car"),
                          Factory("engine", "createPetrolEngine"),
                          Value("power", 1184)>>, <<"driverModule">>)) @@
  ("cycModule" :> Plain(<<Factory("a", "FnA"), Type("b", "FnB"), Value("cfg", 100)>>,
                        <<>>)) @@
  ("outerModule" :> Decl(<<Value("d", 1), Factory("broken", "Broken")>>, <<"privModule">>,
                         FALSE, <<>>, <<>>,
                         <<InitReenter("ReInit"), InitFn("UseExp")>>)) @@
  ("privModule" :> Decl(<<Factory("exp", "Exp"), Value("d", 2), Type("hid", "Hid")>>,
                        <<>>, TRUE, <<"exp">>, <<"nestedModule">>, <<InitName("hid")>>)) @@
  ("nestedModule" :> Decl(<<Factory("nhid", "NHid")>>, <<>>, FALSE, <<>>, <<>>,
                          <<InitName("nhid")>>)) @@
  ("priv2Module" :> Decl(<<Factory("e2", "E2")>>, <<>>, TRUE, <<"e2">>, <<>>, <<>>)) @@
  ("faultModule" :> Decl(<<Factory("broken", "Broken"), Factory("boom", "Boom"),
                           Value("d", 1)>>, <<>>, FALSE, <<>>, <<>>, <<InitName("d")>>)) @@
  ("crossTop" :> Plain(<<Factory("od", "OD")>>, <<"crossModule">>)) @@
  ("crossModule" :> Decl(<<Factory("xe", "XE")>>, <<>>, TRUE, <<"xe">>, <<>>, <<>>)) @@
  ("dotModule" :> Plain(<<Value("cfg", 100), Value("cfg.b.c", 55)>>, <<>>)) @@
  ("localModule" :> Plain(<<Factory("svc", "Svc"), Type("dep", "Dep")>>, <<>>)) @@
  ("inlineModule" :> Plain(<<Inline("pa", "factory", <<"x">>, "Pair"),
                             Inline("pb", "type", <<"y", "x">>, "Pair"),
                             Value("x", 1), Value("y", 2)>>, <<>>)) @@
  ("tagModule" :> Plain(<<Factory("tg", "Tagged"), Type("plainf", "PlainF")>>, <<>>)) @@
  ("pairModule" :> Decl(<<Factory("ea", "EA"), Type("eb", "EB"), Factory("inner", "Inner")>>,
                        <<>>, TRUE, <<"ea", "eb">>, <<>>, <<>>)) @@
  ("overridePower" :> Plain(<<Value("power", 999), Value("turbo", 2)>>, <<>>)) @@
  ("overrideD" :> Plain(<<Value("d", 3)>>, <<>>))

\* a module list holds references: a declared module by its id, or an
\* anonymous module object (the clone a private module is loaded from, the
\* module createChild builds from the parent's providers) with its own keys
Ref(id) == [id |-> id, anon |-> 0, keys |-> <<>>]
Anon(k, keys) == [id |-> "", anon |-> k, keys |-> keys]

\* two references are the same module object
SameModule(r1, r2) == r1.id = r2.id /\ r1.anon = r2.anon

ModuleOf(w, ref) ==
  IF ref.anon = 0 THEN w.decls[ref.id] ELSE Plain(ref.keys, <<>>)

Refs(ids) == [k \in 1..Len(ids) |-> Ref(ids[k])]

-----------------------------------------------------------------------------
(* The world the calls act on, and call results.                           *)

World == [decls |-> decls, inj |-> injectors, inject |-> inject, nsyn |-> nsyn]

Ok(w, v) == [w |-> w, ok |-> TRUE, val |-> v, err |-> "", chain |-> <<>>]
Err(w, kind, chain) == [w |-> w, ok |-> FALSE, val |-> Undef, err |-> kind, chain |-> chain]

\* new Injector: the fields set at lines 150-154, before bootstrap.  Four
\* fields are kept for the record only: made counts the objects each
\* provider produced, forced is the name list of the createChild call that
\* made the injector, api says that the caller holds the injector, ran
\* lists the initializer entries the injector's init() has run; seen lists,
\* for each of them, how far the init() of the entry's injector had come
BlankInjector(k, parent, forced) ==
  [parent |-> parent, providers |-> <<>>, instances |-> ("injector" :> InjRef(k)),
   stack |-> <<>>, initialized |-> FALSE, initializers |-> <<>>,
   made |-> <<>>, forced |-> forced, api |-> FALSE, ran |-> <<>>, seen |-> <<>>]

\* a provider record [resolver, payload, kind, injector?]; the resolver is
\* factoryMap[kind], or the forwarding getter of a 'private' record
Provider(name, kind, fn, value, pinj) ==
  [name |-> name, kind |-> kind, fn |-> fn, value |-> value, pinj |-> pinj]

OwnIdx(me, name) ==
  IF \E k \in 1..Len(me.providers) : me.providers[k].name = name
  THEN CHOOSE k \in 1..Len(me.providers) : me.providers[k].name = name
  ELSE 0

\* hasOwnProp(providers, name)
HasOwnProvider(me, name) == OwnIdx(me, name) # 0

OwnProvider(me, name) == me.providers[OwnIdx(me, name)]

KeepFirst(provs, rec) ==
  IF \E k \in 1..Len(provs) : provs[k].name = rec.name THEN provs ELSE Append(provs, rec)

\* providers[name] = rec: an existing key keeps its place in the key order
SetProvider(provs, rec) ==
  IF \E k \in 1..Len(provs) : provs[k].name = rec.name
  THEN [k \in 1..Len(provs) |-> IF provs[k].name = rec.name THEN rec ELSE provs[k]]
  ELSE Append(provs, rec)

\* providers[name] is truthy: an own entry, or one inherited through the
\* prototype chain Object.create(parent._providers)
RECURSIVE ChainHas(_, _, _)
ChainHas(w, i, name) ==
  IF i = 0 THEN FALSE
  ELSE HasOwnProvider(w.inj[i], name) \/ ChainHas(w, w.inj[i].parent, name)

\* the provider record providers[name] reads (i must have one in its chain)
RECURSIVE ChainProvider(_, _, _)
ChainProvider(w, i, name) ==
  IF HasOwnProvider(w.inj[i], name) THEN OwnProvider(w.inj[i], name)
  ELSE ChainProvider(w, w.inj[i].parent, name)

\* the keys for (name in providers) visits: own keys in insertion order, then
\* the keys of the prototype chain that were not visited yet
RECURSIVE ForInNames(_, _, _)
ForInNames(w, i, seen) ==
  IF i = 0 THEN <<>>
  ELSE LET own == [k \in 1..Len(w.inj[i].providers) |-> w.inj[i].providers[k].name]
           new == SelectSeq(own, LAMBDA n : ~InSeq(n, seen))
       IN new \o ForInNames(w, w.inj[i].parent, seen \o new)

\* name.split('.')
Split(name) ==
  CASE name = "nope.f" -> <<"nope", "f">>
    [] name = "power.x" -> <<"power", "x">>
    [] name = "cfg.b.c" -> <<"cfg", "b", "c">>
    [] OTHER -> <<name>>

\* name.includes('.')
IsDotted(name) == Len(Split(name)) > 1

\* the properties of the literals the declarations use: 100 is {b: {c: 7}}
Fields(n) ==
  CASE n = 100 -> ("b" :> 101)
    [] n = 101 -> ("c" :> 7)
    [] OTHER -> <<>>

SamePivot(v, part) == v

\* pivot[part]
Field(v, part) ==
  IF v.t = "val" /\ part \in DOMAIN Fields(v.v) THEN Val(Fields(v.v)[part]) ELSE Undef

\* while (parts.length) pivot = pivot[parts.shift()]
RECURSIVE Navigate(_, _, _)
Navigate(w, pivot, parts) ==
  IF parts = <<>> THEN Ok(w, pivot)
  ELSE IF pivot.t \in {"null", "undef"} THEN Err(w, "TypeError", <<>>)
  ELSE Navigate(w, Field(pivot, Head(parts)), Tail(parts))

Push(w, i, name) == [w EXCEPT !.inj[i].stack = Append(@, name)]

\* error(msg): the message carries the joined stack, and the stack is emptied
ErrorOf(w, i, kind) ==
  Err([w EXCEPT !.inj[i].stack = <<>>], kind, w.inj[i].stack)

\* the stand-in parent of an injector constructed without one
StubGet(w, i, name, strict) ==
  LET w1 == Push(w, i, name)
  IN IF strict = FALSE THEN Ok(w1, Null) ELSE ErrorOf(w1, i, "NoProviderError")

\* annotate([...names, fn]): fn.$inject = names
Annotate(w, names, fn) ==
  [w EXCEPT !.inject[fn] = [set |-> TRUE, names |-> names]]

\* what a public caller or a provider record hands to fnDef
Callee(fn) == [fn |-> fn, arr |-> [is |-> FALSE, names |-> <<>>]]
InlineCallee(names, fn) == [fn |-> fn, arr |-> [is |-> TRUE, names |-> names]]

NoLocals == <<>>

NoOwnProp(locals, dep) == FALSE

\* hasOwnProp(locals, dep)
HasOwnProp(locals, dep) == dep \in DOMAIN locals

\* fn.apply(context, dependencies) / new Constructor(): user code runs
CallFn(w, i, fn, deps, site) ==
  IF Fns[fn].throws THEN Err(w, "Thrown", <<>>)
  ELSE IF site = ApiSite THEN Ok(w, Obj(i, site, 0, fn, deps))
  ELSE LET k == IF site \in DOMAIN w.inj[i].made THEN w.inj[i].made[site] + 1 ELSE 1
           m == w.inj[i].made
           m1 == [n \in DOMAIN m \cup {site} |-> IF n = site THEN k ELSE m[n]]
       IN Ok([w EXCEPT !.inj[i].made = m1], Obj(i, site, k, fn, deps))

-----------------------------------------------------------------------------
(* The resolution engine: get, fnDef, invoke, instantiate.                 *)

NeverCached(me, name) == FALSE

\* hasOwnProp(instances, name)
Cached(me, name) == name \in DOMAIN me.instances

NeverInFlight(me, name) == FALSE

\* currentlyResolving.indexOf(name) !== -1
InFlight(me, name) == InSeq(name, me.stack)

AlwaysStrict(strict) == TRUE

\* the strict flag get hands to parent.get
PassStrict(strict) == strict

ProvidesByChain(w, i, name) == ChainHas(w, i, name)

\* hasOwnProp(providers, name)
Provides(w, i, name) == HasOwnProvider(w.inj[i], name)

RECURSIVE FarthestProvider(_, _, _)
FarthestProvider(w, i, name) ==
  IF ChainHas(w, w.inj[i].parent, name) THEN FarthestProvider(w, w.inj[i].parent, name)
  ELSE OwnProvider(w.inj[i], name)

\* providers[name]
ProviderOf(w, i, name) == ChainProvider(w, i, name)

OwnInjector(i, p) == i

\* the injector the getter of a 'private' record asks: provider[3]
PrivateTarget(i, p) == p.pinj

StoreInRoot(w, i, name, v) ==
  LET c == w.inj[1].instances
  IN [w EXCEPT !.inj[1].instances = [n \in DOMAIN c \cup {name} |-> IF n = name THEN v ELSE c[n]],
               !.inj[i].stack = Pop(@)]

\* instances[name] = <the resolver's result>; currentlyResolving.pop()
Store(w, i, name, v) ==
  LET c == w.inj[i].instances
  IN [w EXCEPT !.inj[i].instances = [n \in DOMAIN c \cup {name} |-> IF n = name THEN v ELSE c[n]],
               !.inj[i].stack = Pop(@)]

NoParams(w, fn) == <<>>

\* fn.$inject || parseAnnotations(fn)
InjectOf(w, fn) == IF w.inject[fn].set THEN w.inject[fn].names ELSE Fns[fn].params

SameStrict(strict) == strict

\* get(parts.shift()): the first part is asked for with no strict argument
FirstPartStrict(strict) == TRUE

RECURSIVE GetR(_, _, _, _, _)
RECURSIVE DepsR(_, _, _, _, _, _)
RECURSIVE FnDefR(_, _, _, _, _)
RECURSIVE InvokeR(_, _, _, _, _, _)
RECURSIVE InstantiateR(_, _, _, _, _)
RECURSIVE ResolveR(_, _, _, _)

\* get(name, strict); fuel is how many nested get, createChild, new Injector,
\* resolveDependencies and init calls fit on the call stack before it overflows
GetR(w, i, name, strict, fuel) ==
  IF fuel <= 0 THEN Err(w, "RangeError", <<>>)
  ELSE
    LET me == w.inj[i] IN
    IF ~ChainHas(w, i, name) /\ IsDotted(name) THEN
      LET rest(r) == IF r.ok THEN Navigate(r.w, r.val, Tail(Split(name))) ELSE r
      IN rest(GetR(w, i, Head(Split(name)), FirstPartStrict(strict), fuel - 1))
    ELSE IF Cached(me, name) THEN Ok(w, me.instances[name])
    ELSE IF Provides(w, i, name) THEN
      IF InFlight(me, name)
      THEN ErrorOf(Push(w, i, name), i, "CircularDependencyError")
      ELSE LET rest(r) == IF r.ok THEN Ok(Store(r.w, i, name, r.val), r.val) ELSE r
           IN rest(ResolveR(Push(w, i, name), i, ProviderOf(w, i, name), fuel - 1))
    ELSE IF me.parent = 0 THEN StubGet(w, i, name, strict)
    ELSE GetR(w, me.parent, name, PassStrict(strict), fuel - 1)

\* providers[name][0](providers[name][1]): factoryMap[kind], or the getter
\* of a private record, key => privateInjector.get(key)
ResolveR(w, i, p, fuel) ==
  CASE p.kind = "factory" -> InvokeR(w, i, Callee(p.fn), NoLocals, p.name, fuel)
    [] p.kind = "type" -> InstantiateR(w, i, Callee(p.fn), p.name, fuel)
    [] p.kind = "value" -> Ok(w, Val(p.value))
    [] p.kind = "private" -> GetR(w, PrivateTarget(i, p), p.name, TRUE, fuel)

\* inject.map(dep => hasOwnProp(locals, dep) ? locals[dep] : get(dep))
DepsR(w, i, names, locals, acc, fuel) ==
  IF names = <<>> THEN Ok(w, acc)
  ELSE LET dep == Head(names) IN
       IF HasOwnProp(locals, dep)
       THEN DepsR(w, i, Tail(names), locals, Append(acc, locals[dep]), fuel)
       ELSE LET rest(r) ==
                  IF r.ok THEN DepsR(r.w, i, Tail(names), locals, Append(acc, r.val), fuel)
                  ELSE r
            IN rest(GetR(w, i, dep, TRUE, fuel))

\* fnDef(fn, locals): {fn, dependencies}
FnDefR(w, i, callee, locals, fuel) ==
  IF ~callee.arr.is /\ callee.fn = "" THEN ErrorOf(w, i, "InvalidCallableError")
  ELSE LET w1 == IF callee.arr.is THEN Annotate(w, callee.arr.names, callee.fn) ELSE w
           rest(d) == IF d.ok THEN Ok(d.w, [fn |-> callee.fn, deps |-> d.val]) ELSE d
       IN rest(DepsR(w1, i, InjectOf(w1, callee.fn), locals, <<>>, fuel))

\* invoke(func, context, locals); site names the provider the call is made for
InvokeR(w, i, callee, locals, site, fuel) ==
  LET rest(d) == IF d.ok THEN CallFn(d.w, i, d.val.fn, d.val.deps, site) ELSE d
  IN rest(FnDefR(w, i, callee, locals, fuel))

\* instantiate(type)
InstantiateR(w, i, callee, site, fuel) ==
  LET rest(d) == IF d.ok THEN CallFn(d.w, i, d.val.fn, d.val.deps, site) ELSE d
  IN rest(FnDefR(w, i, callee, NoLocals, fuel))

-----------------------------------------------------------------------------
(* The module composer and the scope manager: resolveDependencies,         *)
(* loadModule, bootstrap, new Injector, createChild, init.                 *)

NeverHas(defs, ref) == FALSE

\* moduleDefinitions.indexOf(moduleDefinition) !== -1
HasModule(defs, ref) == \E k \in 1..Len(defs) : SameModule(defs[k], ref)

RECURSIVE ResolveDependencies(_, _, _, _)
RECURSIVE ReduceDependencies(_, _, _, _)

\* resolveDependencies(moduleDefinitions, moduleDefinition)
ResolveDependencies(w, defs, ref, fuel) ==
  IF fuel <= 0 THEN Err(w, "RangeError", <<>>)
  ELSE IF HasModule(defs, ref) THEN Ok(w, defs)
  ELSE LET rest(r) == IF ~r.ok \/ HasModule(r.val, ref) THEN r
                       ELSE Ok(w, Append(r.val, ref))
       IN rest(ReduceDependencies(w, defs, Refs(ModuleOf(w, ref).depends), fuel - 1))

\* list.reduce(resolveDependencies, defs)
ReduceDependencies(w, defs, refs, fuel) ==
  IF refs = <<>> THEN Ok(w, defs)
  ELSE LET rest(r) == IF r.ok THEN ReduceDependencies(w, r.val, Tail(refs), fuel) ELSE r
       IN rest(ResolveDependencies(w, defs, Head(refs), fuel))

\* arrayUnwrap(type, value) and the provider record loadModule stores for a key
RegisterKey(w, k, e) ==
  IF e.kind = "private"
  THEN [w EXCEPT !.inj[k].providers = SetProvider(@, Provider(e.name, "private", "", 0, e.pinj))]
  ELSE LET w1 == IF e.kind # "value" /\ e.arr.is THEN Annotate(w, e.arr.names, e.fn) ELSE w
       IN [w1 EXCEPT !.inj[k].providers = SetProvider(@, Provider(e.name, e.kind, e.fn, e.value, 0))]

\* Object.keys(moduleDefinition).forEach(...) of a normal module
RECURSIVE RegisterKeys(_, _, _)
RegisterKeys(w, k, keys) ==
  IF keys = <<>> THEN w ELSE RegisterKeys(RegisterKey(w, k, Head(keys)), k, Tail(keys))

ExposeAll(w, k, exports, p) ==
  [w EXCEPT !.inj[k].providers =
     @ \o [j \in 1..Len(w.inj[p].providers) |->
             Provider(w.inj[p].providers[j].name, "private", "", 0, p)]]

\* moduleExports.forEach(key => providers[key] = [getFromPrivateInjector, key, 'private', privateInjector])
RECURSIVE RegisterExports(_, _, _, _)
RegisterExports(w, k, exports, p) ==
  IF exports = <<>> THEN w
  ELSE RegisterExports(
         [w EXCEPT !.inj[k].providers = SetProvider(@, Provider(Head(exports), "private", "", 0, p))],
         k, Tail(exports), p)

KeepKeys(keys, e) == keys

\* fromParentModule[name] = entry
SetKey(keys, e) ==
  IF \E k \in 1..Len(keys) : keys[k].name = e.name
  THEN [k \in 1..Len(keys) |-> IF keys[k].name = e.name THEN e ELSE keys[k]]
  ELSE Append(keys, e)

NoScopes(p, names) == {}

\* the scopes of forceNewInstances a factory/type provider is tagged with
TaggedScopes(p, names) ==
  IF p.kind \in {"factory", "type"} /\ p.fn # ""
  THEN {n \in Range(names) : InSeq(n, Fns[p.fn].scope)}
  ELSE {}

\* forceNewInstances.forEach(scope => { if (!matchedScopes[scope]) throw ... })
Unmatched(names, matched) == \E k \in 1..Len(names) : names[k] \notin matched

\* a createChild result: the call's result and the caller's list as it left it
WithMods(r, mods) ==
  [w |-> r.w, ok |-> r.ok, val |-> r.val, err |-> r.err, chain |-> r.chain, mods |-> mods]

\* a createChild result as an inner caller, which passed a list of its own, sees it
NoMods(r) == [w |-> r.w, ok |-> r.ok, val |-> r.val, err |-> r.err, chain |-> r.chain]

RECURSIVE NewInjectorR(_, _, _, _, _)
RECURSIVE LoadModuleR(_, _, _, _)
RECURSIVE LoadAllR(_, _, _, _)
InitLast(p, acts) == acts \o <<InitChild(p)>>

\* initializers.unshift(() => privateInjector.init())
PrivateInit(p, acts) == <<InitChild(p)>> \o acts

AllKeys(m) == [k \in 1..Len(m.keys) |-> InitName(m.keys[k].name)]

\* moduleDefinition.__init__ || []
InitEntries(m) == m.init

NoCachedChild(cache, pinj) == 0

\* cacheIdx = privateInjectorsCache.indexOf(provider[3]), counted from 1
CachedChild(cache, pinj) == IndexOf(pinj, cache)

RECURSIVE CreateChildR(_, _, _, _, _)
RECURSIVE ScanR(_, _, _, _, _, _)

\* the for (name in providers) loop of createChild; acc is fromParentModule
\* (keys), matchedScopes (matched), privateInjectorsCache (cache) and
\* privateChildInjectors (children)
ScanR(w, i, keys, names, acc, fuel) ==
  IF keys = <<>> THEN Ok(w, acc)
  ELSE
    LET name == Head(keys)
        p == ChainProvider(w, i, name)
        tags == TaggedScopes(p, names)
        copy == Entry(name, p.kind, p.fn, p.value)
        tag(a) == IF tags = {} THEN a
                  ELSE [a EXCEPT !.keys = SetKey(@, copy), !.matched = @ \cup tags]
    IN
    IF ~InSeq(name, names) THEN ScanR(w, i, Tail(keys), names, tag(acc), fuel)
    ELSE IF p.kind # "private"
    THEN ScanR(w, i, Tail(keys), names,
               tag([acc EXCEPT !.keys = SetKey(@, copy), !.matched = @ \cup {name}]), fuel)
    ELSE IF CachedChild(acc.cache, p.pinj) # 0
    THEN ScanR(w, i, Tail(keys), names,
               [acc EXCEPT !.keys = SetKey(@, PrivateEntry(name, acc.children[CachedChild(acc.cache, p.pinj)])),
                           !.matched = @ \cup {name}], fuel)
    ELSE LET rest(r) ==
               IF ~r.ok THEN r
               ELSE ScanR(r.w, i, Tail(keys), names,
                          [keys |-> SetKey(acc.keys, PrivateEntry(name, r.val.id)),
                           matched |-> acc.matched \cup {name},
                           cache |-> Append(acc.cache, p.pinj),
                           children |-> Append(acc.children, r.val.id)], fuel)
         IN rest(NoMods(CreateChildR(w, p.pinj, <<>>, names, fuel)))

\* createChild(modules, forceNewInstances) of injector i; the result also
\* carries the caller's list as the call left it (modules.unshift)
CreateChildR(w, i, mods, names, fuel) ==
  IF fuel <= 0 THEN WithMods(Err(w, "RangeError", <<>>), mods)
  ELSE IF names = <<>> THEN WithMods(NewInjectorR(w, mods, i, <<>>, fuel - 1), mods)
  ELSE
    LET scanned(s) ==
          IF ~s.ok THEN WithMods(s, mods)
          ELSE IF Unmatched(names, s.val.matched)
          THEN WithMods(Err(s.w, "UnknownScopeError", <<>>), mods)
          ELSE LET w1 == [s.w EXCEPT !.nsyn = @ + 1]
                   mods1 == <<Anon(w1.nsyn, s.val.keys)>> \o mods
               IN WithMods(NewInjectorR(w1, mods1, i, names, fuel - 1), mods1)
    IN scanned(ScanR(w, i, ForInNames(w, i, <<>>), names,
                     [keys |-> <<>>, matched |-> {}, cache |-> <<>>, children |-> <<>>],
                     fuel - 1))

\* loadModule(moduleDefinition) of injector k: registers its providers and
\* appends the module's initializer
LoadModuleR(w, k, ref, fuel) ==
  LET m == ModuleOf(w, ref) IN
  IF m.private THEN
    LET w1 == [w EXCEPT !.nsyn = @ + 1]
        childModules == Refs(m.nested) \o <<Anon(w1.nsyn, m.keys)>>
        rest(r) ==
          IF ~r.ok THEN r
          ELSE Ok([RegisterExports(r.w, k, m.exports, r.val.id) EXCEPT !.inj[k].initializers =
                     Append(@, [mod |-> ref, target |-> r.val.id,
                                acts |-> PrivateInit(r.val.id, InitEntries(m))])],
                  Undef)
    IN rest(NoMods(CreateChildR(w1, k, childModules, <<>>, fuel)))
  ELSE Ok([RegisterKeys(w, k, m.keys) EXCEPT !.inj[k].initializers =
              Append(@, [mod |-> ref, target |-> k, acts |-> InitEntries(m)])],
          Undef)

\* .map(loadModule)
LoadAllR(w, k, refs, fuel) ==
  IF refs = <<>> THEN Ok(w, Undef)
  ELSE LET rest(r) == IF r.ok THEN LoadAllR(r.w, k, Tail(refs), fuel) ELSE r
       IN rest(LoadModuleR(w, k, Head(refs), fuel))

\* new Injector(modules, parent): bootstrap(modules) flattens and loads
NewInjectorR(w, mods, parent, forced, fuel) ==
  IF fuel <= 0 THEN Err(w, "RangeError", <<>>)
  ELSE
    LET k == Len(w.inj) + 1
        w1 == [w EXCEPT !.inj = Append(@, BlankInjector(k, parent, forced))]
        loaded(r) == IF r.ok THEN Ok(r.w, InjRef(k)) ELSE r
        rest(order) == IF order.ok THEN loaded(LoadAllR(w1, k, order.val, fuel - 1))
                       ELSE order
    IN rest(ReduceDependencies(w1, <<>>, mods, fuel - 1))

RECURSIVE InitR(_, _, _)
RECURSIVE RunActsR(_, _, _, _, _)
RECURSIVE RunInitializersR(_, _, _, _)

\* the entry of the run record for one initializer entry run on target
Ran(target, a) == [target |-> target, act |-> a]

\* the state of an entry's injector when the entry starts
Seen(me) == [initialized |-> me.initialized, done |-> Len(me.ran)]

\* one module's initializer (createInitializer): get or invoke on its
\* injector, entry by entry; owner is the injector whose init() runs it
RunActsR(w, owner, target, acts, fuel) ==
  IF acts = <<>> THEN Ok(w, Undef)
  ELSE LET a == Head(acts)
           w1 == [w EXCEPT !.inj[owner].ran = Append(@, Ran(target, a)),
                           !.inj[owner].seen = Append(@, Seen(w.inj[target]))]
           rest(r) == IF r.ok THEN RunActsR(r.w, owner, target, Tail(acts), fuel) ELSE r
           reenter(r) == IF r.ok THEN InitR(r.w, target, fuel) ELSE r
       IN rest(CASE a.t = "name" -> GetR(w1, target, a.name, TRUE, fuel)
                 [] a.t = "fn" -> InvokeR(w1, target, Callee(a.fn), NoLocals, ApiSite, fuel)
                 [] a.t = "reenter" ->
                      reenter(InvokeR(w1, target, Callee(a.fn), NoLocals, ApiSite, fuel))
                 [] a.t = "initchild" -> InitR(w1, a.inj, fuel))

\* initializers.forEach(initializer => initializer())
RunInitializersR(w, owner, inits, fuel) ==
  IF inits = <<>> THEN Ok(w, Undef)
  ELSE LET rest(r) == IF r.ok THEN RunInitializersR(r.w, owner, Tail(inits), fuel) ELSE r
       IN rest(RunActsR(w, owner, Head(inits).target, Head(inits).acts, fuel))

NeverInitialized(me) == FALSE

\* if (initialized) return;
Initialized(me) == me.initialized

\* injector.init(): the function bootstrap returns
InitR(w, i, fuel) ==
  IF fuel <= 0 THEN Err(w, "RangeError", <<>>)
  ELSE IF Initialized(w.inj[i]) THEN Ok(w, Undef)
  ELSE RunInitializersR([w EXCEPT !.inj[i].initialized = TRUE], i,
                        w.inj[i].initializers, fuel - 1)

-----------------------------------------------------------------------------
(* The state machine: the caller constructs the root injector from a       *)
(* module list, then makes public calls on the injectors it holds and      *)
(* takes each call's result before the next call.                          *)

Inject0 == [f \in DOMAIN Fns |-> NoInject]

World0(d) == [decls |-> d, inj |-> <<>>, inject |-> Inject0, nsyn |-> 0]

\* the caller's last call and its outcome; cached says that the call was a
\* get of a name the injector's cache already held, again that it was an
\* init() of an injector whose init() had been called before
NoCall ==
  [op |-> "none", inj |-> 0, name |-> "", strict |-> TRUE, fn |-> "", names |-> <<>>,
   ok |-> TRUE, val |-> Undef, err |-> "", chain |-> <<>>, cached |-> FALSE,
   again |-> FALSE, locals |-> NoLocals]

Call(op, i, name, strict, fn, names, r) ==
  [op |-> op, inj |-> i, name |-> name, strict |-> strict, fn |-> fn, names |-> names,
   ok |-> r.ok, val |-> r.val, err |-> r.err, chain |-> r.chain,
   cached |-> op = "get" /\ Cached(injectors[i], name),
   again |-> op = "init" /\ injectors[i].initialized,
   locals |-> NoLocals]

\* the injector the caller was handed: new Injector's or createChild's result
Handed(inj, k) == [inj EXCEPT ![k].api = TRUE]

\* new Injector(top) of the declarations d
Built(d, t, r) ==
  /\ r.ok
  /\ decls = d
  /\ top = t
  /\ injectors = Handed(r.w.inj, r.val.id)
  /\ inject = r.w.inject
  /\ nsyn = r.w.nsyn
  /\ shared = <<>>
  /\ last = NoCall

Constructed(d, t) == Built(d, t, NewInjectorR(World0(d), Refs(t), 0, <<>>, MaxDepth))

InitCar == Constructed(StaticDecls, <<"carModule">>)
InitCyc == Constructed(StaticDecls, <<"cycModule">>)
InitCross == Constructed(StaticDecls, <<"crossTop">>)
InitPriv ==
  \E t \in {<<"outerModule">>, <<"outerModule", "priv2Module">>} : Constructed(StaticDecls, t)
InitScope == \E t \in {<<"pairModule">>, <<"tagModule">>} : Constructed(StaticDecls, t)
InitFault == Constructed(StaticDecls, <<"faultModule">>)
InitLocal == Constructed(StaticDecls, <<"localModule">>)
InitInline == Constructed(StaticDecls, <<"inlineModule">>)
InitDot == Constructed(StaticDecls, <<"dotModule">>)

\* the injectors the caller holds
Injectors == {i \in 1..Len(injectors) : injectors[i].api}

OwnNames(me) == {me.providers[k].name : k \in 1..Len(me.providers)}

ProviderNames == UNION {OwnNames(injectors[i]) : i \in 1..Len(injectors)}

\* the dotted names the caller asks for whose first part has a provider
DottedNames == {n \in {"cfg.b.c"} : Head(Split(n)) \in ProviderNames}

\* the names the caller asks for
ApiNames == ProviderNames \cup {"missing", "nope.f"} \cup DottedNames

\* the strict flags the caller passes with a name
Flags(n) == IF n \in {"missing", "nope.f"} THEN BOOLEAN ELSE {TRUE}

\* the injectors the caller calls init and createChild on
InitTargets == {1}
ChildParents == IF top = <<"cycModule">> THEN Injectors ELSE {1}

\* the callables the caller invokes or instantiates
ApiFns ==
  CASE top = <<"carModule">> -> {"UseCar"}
    [] top = <<"cycModule">> -> {"FnA"}
    [] top = <<"faultModule">> -> {"Exp"}
    [] top = <<"crossTop">> -> {"OD"}
    [] top = <<"dotModule">> -> {"UseDot"}
    [] top = <<"inlineModule">> -> {"Pair"}
    [] top = <<"localModule">> -> {"UseLoc", "UseGiven"}
    [] top \in {<<"pairModule">>, <<"tagModule">>} -> {"UseEa"}
    [] OTHER -> {"UseExp"}

\* the locals the caller passes to invoke
GivenLocals == ("dep" :> Val(41)) @@ ("ghost" :> Val(42))

ApiLocals == IF top = <<"localModule">> THEN {NoLocals, GivenLocals} ELSE {NoLocals}

\* the createChild calls the caller makes
ChildCall(mods, names) == [mods |-> Refs(mods), names |-> names]

ChildCalls ==
  CASE top = <<"carModule">> ->
         { ChildCall(<<"overridePower">>, <<>>), ChildCall(<<>>, <<"engine">>),
           ChildCall(<<>>, <<"nonexistent">>) }
    [] top = <<"cycModule">> ->
         { ChildCall(<<>>, <<>>), ChildCall(<<>>, <<"a">>), ChildCall(<<>>, <<"a", "zzz">>) }
    [] top = <<"outerModule">> ->
         { ChildCall(<<"overrideD">>, <<>>), ChildCall(<<"privModule">>, <<>>),
           ChildCall(<<>>, <<"exp">>), ChildCall(<<>>, <<"hid">>) }
    [] top = <<"faultModule">> ->
         { ChildCall(<<"overrideD">>, <<>>), ChildCall(<<>>, <<"broken">>),
           ChildCall(<<>>, <<"boom">>) }
    [] top = <<"pairModule">> ->
         { ChildCall(<<>>, <<"ea", "eb">>), ChildCall(<<>>, <<"eb">>) }
    [] top = <<"tagModule">> ->
         { ChildCall(<<>>, <<"req">>), ChildCall(<<>>, <<"plainf">>) }
    [] top = <<"crossTop">> ->
         { ChildCall(<<>>, <<>>), ChildCall(<<>>, <<"od">>) }
    [] top = <<"dotModule">> ->
         { ChildCall(<<>>, <<>>), ChildCall(<<>>, <<"cfg">>) }
    [] top = <<"inlineModule">> ->
         { ChildCall(<<>>, <<>>), ChildCall(<<>>, <<"pa">>) }
    [] top = <<"localModule">> ->
         { ChildCall(<<>>, <<>>), ChildCall(<<>>, <<"dep">>) }
    [] OTHER ->
         { ChildCall(<<>>, <<"e2">>), ChildCall(<<>>, <<"exp", "e2">>),
           ChildCall(<<>>, <<"nonexistent", "exp", "e2">>), ChildCall(<<>>, <<"nonexistent">>) }

Children == Cardinality(Injectors) - 1

Bounded(inj) == \A i \in 1..Len(inj) : Len(inj[i].stack) <= MaxStale

Idle == last.op = "none"

\* the call's effects and its outcome, as the caller sees them
Commit(op, i, name, strict, fn, names, r) ==
  /\ Idle
  /\ Bounded(r.w.inj)
  /\ injectors' = r.w.inj
  /\ inject' = r.w.inject
  /\ nsyn' = r.w.nsyn
  /\ last' = Call(op, i, name, strict, fn, names, r)
  /\ UNCHANGED <<decls, top>>

\* injector.get(name, strict)
Get(i, name, strict) ==
  /\ Commit("get", i, name, strict, "", <<>>, GetR(World, i, name, strict, MaxDepth))
  /\ UNCHANGED shared

\* an invoke call with its locals, as the caller sees it
CallWith(i, fn, locals, r) == [Call("invoke", i, "", TRUE, fn, <<>>, r) EXCEPT !.locals = locals]

CommitWith(i, fn, locals, r) ==
  /\ Idle
  /\ Bounded(r.w.inj)
  /\ injectors' = r.w.inj
  /\ inject' = r.w.inject
  /\ nsyn' = r.w.nsyn
  /\ last' = CallWith(i, fn, locals, r)
  /\ UNCHANGED <<decls, top>>

\* injector.invoke(fn, null, locals)
Invoke(i, fn, locals) ==
  /\ CommitWith(i, fn, locals, InvokeR(World, i, Callee(fn), locals, ApiSite, MaxDepth))
  /\ UNCHANGED shared

\* injector.instantiate(fn)
Instantiate(i, fn) ==
  /\ Commit("instantiate", i, "", TRUE, fn, <<>>,
            InstantiateR(World, i, Callee(fn), ApiSite, MaxDepth))
  /\ UNCHANGED shared

\* injector.init()
InitCall(i) ==
  /\ Commit("init", i, "", TRUE, "", <<>>, InitR(World, i, MaxDepth))
  /\ UNCHANGED shared

\* what a createChild call leaves: the child handed to the caller, or, when
\* the call raised, the world without the injectors the call had made
\* (nothing refers to them)
AfterCreateChild(w0, r) ==
  IF r.ok THEN [r EXCEPT !.w.inj = Handed(@, r.val.id)]
  ELSE [r EXCEPT !.w.inj = SubSeq(@, 1, Len(w0.inj))]

\* injector.createChild(modules, forceNewInstances) with a list of the caller's own
CreateChild(i, c) ==
  /\ Children < MaxChildren
  /\ Commit("createChild", i, "", TRUE, "", c.names,
            AfterCreateChild(World, CreateChildR(World, i, c.mods, c.names, MaxDepth)))
  /\ UNCHANGED shared

\* the caller takes the result
Return ==
  /\ ~Idle
  /\ last' = NoCall
  /\ UNCHANGED <<decls, top, injectors, inject, shared, nsyn>>

Next ==
  \/ \E i \in Injectors, n \in ApiNames : \E s \in Flags(n) : Get(i, n, s)
  \/ \E i \in Injectors, f \in ApiFns, l \in ApiLocals : Invoke(i, f, l)
  \/ \E i \in Injectors, f \in ApiFns : Instantiate(i, f)
  \/ \E i \in InitTargets : InitCall(i)
  \/ \E i \in ChildParents, c \in ChildCalls : CreateChild(i, c)
  \/ Return

\* the name lists the caller passes together with the list it keeps
SharedNames == {<<"dep">>, <<"svc">>}

\* injector.createChild(mods, forceNewInstances) with the list the caller
\* keeps: modules.unshift(fromParentModule) acts on that list
CreateChildShared(i, names) ==
  /\ Children < MaxChildren
  /\ Commit("createChild", i, "", TRUE, "", names,
            AfterCreateChild(World, CreateChildR(World, i, shared, names, MaxDepth)))
  /\ shared' = CreateChildR(World, i, shared, names, MaxDepth).mods

NextShared ==
  \/ Next
  \/ \E i \in ChildParents, n \in SharedNames : CreateChildShared(i, n)

\* the inline pairs the caller invokes and instantiates
InlineCalls == {InlineCallee(<<"x", "y">>, "Pair")}

\* an invoke or instantiate call with an inline pair, as the caller sees it
CallInline(op, i, c, r) == Call(op, i, "", TRUE, c.fn, c.arr.names, r)

CommitInline(op, i, c, r) ==
  /\ Idle
  /\ Bounded(r.w.inj)
  /\ injectors' = r.w.inj
  /\ inject' = r.w.inject
  /\ nsyn' = r.w.nsyn
  /\ last' = CallInline(op, i, c, r)
  /\ UNCHANGED <<decls, top, shared>>

\* injector.invoke([dep..., fn])
InvokeInline(i, c) ==
  CommitInline("invoke", i, c, InvokeR(World, i, c, NoLocals, ApiSite, MaxDepth))

\* injector.instantiate([dep..., fn])
InstantiateInline(i, c) ==
  CommitInline("instantiate", i, c, InstantiateR(World, i, c, ApiSite, MaxDepth))

NextInline ==
  \/ Next
  \/ \E i \in Injectors, c \in InlineCalls : InvokeInline(i, c)
  \/ \E i \in Injectors, c \in InlineCalls : InstantiateInline(i, c)

SpecCar == InitCar /\ [][Next]_vars
SpecInline == InitInline /\ [][NextInline]_vars
SpecShared == InitLocal /\ [][NextShared]_vars
SpecCyc == InitCyc /\ [][Next]_vars
SpecPriv == InitPriv /\ [][Next]_vars
SpecFault == InitFault /\ [][Next]_vars
SpecCross == InitCross /\ [][Next]_vars
SpecLocal == InitLocal /\ [][Next]_vars
SpecDot == InitDot /\ [][Next]_vars
SpecScope == InitScope /\ [][Next]_vars

-----------------------------------------------------------------------------
(* Declaration graphs: the caller writes the __depends__ lists of four     *)
(* modules that each declare x (a factory, a type, a value and a second    *)
(* factory), constructs an injector from a top-level list and asks for x.  *)

DepIds == {"m1", "m2", "m3", "m4"}

DepDecls ==
  ("m1" :> Plain(<<Factory("x", "X1")>>, <<>>)) @@
  ("m2" :> Plain(<<Type("x", "X2")>>, <<>>)) @@
  ("m3" :> Plain(<<Value("x", 3)>>, <<>>)) @@
  ("m4" :> Plain(<<Factory("x", "X4")>>, <<>>))

\* the top-level lists handed to new Injector
DepTops == {<<"m1">>, <<"m2", "m1">>}

RECURSIVE SumLen(_, _)
SumLen(d, ids) ==
  IF ids = {} THEN 0
  ELSE LET m == CHOOSE m \in ids : TRUE IN Len(d[m].depends) + SumLen(d, ids \ {m})

Edges == SumLen(decls, DOMAIN decls)

InitDeps ==
  /\ decls = DepDecls
  /\ injectors = <<>>
  /\ inject = Inject0
  /\ nsyn = 0
  /\ top = <<>>
  /\ shared = <<>>
  /\ last = NoCall

\* module m lists module d in its __depends__
AddDep(m, d) ==
  /\ Idle
  /\ injectors = <<>>
  /\ Edges < MaxEdges
  /\ ~InSeq(d, decls[m].depends)
  /\ decls' = [decls EXCEPT ![m].depends = Append(@, d)]
  /\ UNCHANGED <<injectors, inject, shared, nsyn, top, last>>

\* what new Injector(t) leaves: the injector handed to the caller, or nothing
\* when the constructor raised
AfterConstruct(t, r) ==
  /\ injectors' = (IF r.ok THEN Handed(r.w.inj, r.val.id) ELSE <<>>)
  /\ top' = (IF r.ok THEN t ELSE top)
  /\ inject' = r.w.inject
  /\ nsyn' = (IF r.ok THEN r.w.nsyn ELSE nsyn)
  /\ last' = Call("new", 0, "", TRUE, "", t, r)

\* new Injector(t)
Construct(t) ==
  /\ Idle
  /\ injectors = <<>>
  /\ AfterConstruct(t, NewInjectorR(World, Refs(t), 0, <<>>, MaxDepth))
  /\ UNCHANGED <<decls, shared>>

NextDeps ==
  \/ \E m \in DepIds, d \in DepIds : AddDep(m, d)
  \/ \E t \in DepTops : Construct(t)
  \/ \E i \in Injectors : Get(i, "x", TRUE)
  \/ Return

SpecDeps == InitDeps /\ [][NextDeps]_vars

-----------------------------------------------------------------------------
(* Properties.                                                             *)

\* how many objects injector me made for its provider n
MadeFor(me, n) == IF n \in DOMAIN me.made THEN me.made[n] ELSE 0

\* C1: once a name has an entry in an injector's instance cache, no call
\* replaces or removes the entry, no call makes the injector's provider of the
\* name produce another object, and a get of the name on that injector
\* succeeds and returns the cached instance
C1_Singleton ==
  [][\A i \in 1..Len(injectors) : \A n \in DOMAIN injectors[i].instances :
       /\ i <= Len(injectors')
       /\ n \in DOMAIN injectors'[i].instances
       /\ injectors'[i].instances[n] = injectors[i].instances[n]
       /\ MadeFor(injectors'[i], n) = MadeFor(injectors[i], n)
       /\ MadeFor(injectors[i], n) <= 1
       /\ (last'.op = "get" /\ last'.inj = i /\ last'.name = n)
            => (last'.ok /\ last'.val = injectors[i].instances[n])]_vars

\* a get of a name whose object the injector had cached returned
C1_Witness ==
  /\ last.op = "get" /\ last.cached /\ last.ok
  /\ last.val.t = "obj"
  /\ last.val = injectors[last.inj].instances[last.name]

\* the other name of the cycle a -> b -> a of cycModule
OtherOf(n) == IF n = "a" THEN "b" ELSE "a"

\* C2: a get of a name of the cycle a -> b -> a, on the injector that
\* registers both, raises CircularDependencyError with the chain of that
\* resolution, n -> other -> n, and no injector caches a name of the cycle
C2_CycleChain ==
  /\ \A i \in 1..Len(injectors) : DOMAIN injectors[i].instances \cap {"a", "b"} = {}
  /\ (last.op = "get" /\ last.inj = 1 /\ last.name \in {"a", "b"}) =>
       /\ ~last.ok
       /\ last.err = "CircularDependencyError"
       /\ last.chain = <<last.name, OtherOf(last.name), last.name>>

\* how many injectors are above injector i
RECURSIVE DepthOf(_)
DepthOf(i) == IF injectors[i].parent = 0 THEN 0 ELSE 1 + DepthOf(injectors[i].parent)

\* the call was a get of a name that neither the injector nor an ancestor
\* provides (and that is not the built-in 'injector')
MissingGet ==
  /\ last.op = "get"
  /\ ~ChainHas(World, last.inj, last.name)
  /\ ~Cached(injectors[last.inj], last.name)

\* what get answers for a name nothing provides
MissingAnswer ==
  IF last.strict THEN ~last.ok /\ last.err = "NoProviderError"
  ELSE last.ok /\ last.val = Null

KeyNames(m) == {m.keys[k].name : k \in 1..Len(m.keys)}

\* the names a private module keeps to itself: its keys and the keys of its
\* nested modules, without its exports
HiddenNames(m) ==
  (KeyNames(m) \cup UNION {KeyNames(decls[m.nested[k]]) : k \in 1..Len(m.nested)})
    \ Range(m.exports)

\* the names the modules loaded into injector i declare for it: the keys of a
\* normal module, the exports of a private one
Declared(i) ==
  UNION { IF injectors[i].initializers[k].target = i
          THEN KeyNames(ModuleOf(World, injectors[i].initializers[k].mod))
          ELSE Range(ModuleOf(World, injectors[i].initializers[k].mod).exports)
          : k \in 1..Len(injectors[i].initializers) }

\* the names declared for injector j or for one of its ancestors
RECURSIVE Visible(_)
Visible(j) == IF j = 0 THEN {} ELSE Declared(j) \cup Visible(injectors[j].parent)

\* injector j is injector i or one of its ancestors
RECURSIVE AncestorOrSelf(_, _)
AncestorOrSelf(j, i) ==
  IF i = 0 THEN FALSE ELSE j = i \/ AncestorOrSelf(j, injectors[i].parent)

\* the private modules loaded into injector i
PrivateLoads(i) ==
  {k \in 1..Len(injectors[i].initializers) : injectors[i].initializers[k].target # i}

\* the call was a get, on injector i or an ancestor of it, of a name that a
\* private module loaded into i keeps to itself and that no module declares
\* for the injector asked or its ancestors
HiddenGet ==
  /\ last.op = "get"
  /\ \E i \in 1..Len(injectors) : \E k \in PrivateLoads(i) :
       /\ AncestorOrSelf(last.inj, i)
       /\ last.name \in HiddenNames(ModuleOf(World, injectors[i].initializers[k].mod))
  /\ last.name \notin Visible(last.inj)

\* C4: get of a non-exported name of a private module, on the injector the
\* module was loaded into or on an ancestor, raises NoProviderError
C4_PrivateHidden == HiddenGet => (~last.ok /\ last.err = "NoProviderError")

\* get('hid') on the root failed after init() ran and after the exported
\* name was resolved there
C4_Witness ==
  /\ HiddenGet /\ last.inj = 1 /\ last.name = "hid" /\ ~last.ok
  /\ injectors[1].initialized
  /\ "exp" \in DOMAIN injectors[1].instances

\* C5: get('exp'), the export of the private module, succeeds on every
\* injector of the caller, and the instance was built by a private injector
\* from the private module's d (2); get('d') on the root returns the outer d (1)
C5_ExportWired ==
  /\ (last.op = "get" /\ last.name = "exp") =>
       /\ last.ok
       /\ last.val.t = "obj" /\ last.val.fn = "Exp"
       /\ last.val.deps = <<Val(2)>>
       /\ ~injectors[last.val.by].api
  /\ (last.op = "get" /\ last.name = "d" /\ last.inj = 1) =>
       (last.ok /\ last.val = Val(1))

\* the root returned the outer d after it had resolved the export
C5_Witness ==
  /\ last.op = "get" /\ last.name = "d" /\ last.inj = 1 /\ last.val = Val(1)
  /\ "exp" \in DOMAIN injectors[1].instances
  /\ injectors[1].instances["exp"].deps = <<Val(2)>>

\* name x was forced new for injector c, which the caller holds, and the
\* provider its parent sees for x is a factory or a type
ForcedIn(c, x) ==
  /\ injectors[c].api
  /\ InSeq(x, injectors[c].forced)
  /\ ChainHas(World, injectors[c].parent, x)
  /\ ChainProvider(World, injectors[c].parent, x).kind \in {"factory", "type"}

HasInstance(i, x) == x \in DOMAIN injectors[i].instances

\* C6: a child created with x forced new resolves x to an instance of its
\* own: a successful get('x') on the child returns the one object the child
\* made for x, which is not the instance of its parent nor that of another
\* child created with x forced
C6_ForcedDistinct ==
  \A c \in 1..Len(injectors) : \A x \in Range(injectors[c].forced) :
    ForcedIn(c, x) =>
      /\ MadeFor(injectors[c], x) <= 1
      /\ HasInstance(c, x) =>
           /\ injectors[c].instances[x].t = "obj"
           /\ injectors[c].instances[x].by = c
           /\ HasInstance(injectors[c].parent, x) =>
                injectors[c].instances[x] # injectors[injectors[c].parent].instances[x]
           /\ \A c2 \in 1..Len(injectors) :
                (c2 # c /\ ForcedIn(c2, x) /\ HasInstance(c2, x)) =>
                  injectors[c].instances[x] # injectors[c2].instances[x]
      /\ (last.op = "get" /\ last.inj = c /\ last.name = x /\ last.ok) =>
           (HasInstance(c, x) /\ last.val = injectors[c].instances[x])

\* two children created with engine forced and their parent each hold an
\* engine, and a cached get on one of the children just returned
C6_Witness ==
  /\ last.op = "get" /\ last.name = "engine" /\ last.cached /\ last.ok
  /\ ForcedIn(last.inj, "engine")
  /\ HasInstance(1, "engine")
  /\ \E c2 \in 1..Len(injectors) :
       c2 # last.inj /\ ForcedIn(c2, "engine") /\ HasInstance(c2, "engine")

\* the nearest injector, from i upwards, with an own provider for n
RECURSIVE ProvidingInjector(_, _)
ProvidingInjector(i, n) ==
  IF i = 0 THEN 0
  ELSE IF HasOwnProvider(injectors[i], n) THEN i
  ELSE ProvidingInjector(injectors[i].parent, n)

\* the injector that builds the instance of a's own provider n
BuilderOf(a, n) ==
  IF OwnProvider(injectors[a], n).kind = "private"
  THEN OwnProvider(injectors[a], n).pinj ELSE a

\* object v was built from what injector b resolves for its callable's parameters
BuiltWithViewOf(v, b) ==
  /\ v.by = b
  /\ Len(v.deps) = Len(Fns[v.fn].params)
  /\ \A k \in 1..Len(v.deps) :
       v.deps[k] = GetR(World, b, Fns[v.fn].params[k], TRUE, MaxDepth).val

\* the call was a successful get of a name that the injector asked inherits
InheritedGet ==
  /\ last.op = "get" /\ last.ok
  /\ ~HasOwnProvider(injectors[last.inj], last.name)
  /\ ChainHas(World, last.inj, last.name)

\* C7: a get of an inherited name returns the instance held in the cache of
\* the providing ancestor, built there with the ancestor's view of the
\* registry; an injector's cache holds entries only for names it registers
C7_Inherited ==
  /\ \A i \in 1..Len(injectors) : \A n \in DOMAIN injectors[i].instances :
       n = "injector" \/ HasOwnProvider(injectors[i], n)
  /\ InheritedGet =>
       /\ HasInstance(ProvidingInjector(last.inj, last.name), last.name)
       /\ last.val = injectors[ProvidingInjector(last.inj, last.name)].instances[last.name]
       /\ last.val.t = "obj" =>
            BuiltWithViewOf(last.val, BuilderOf(ProvidingInjector(last.inj, last.name), last.name))

\* the child that overrides power got the root's engine, built with the
\* root's power
C7_Witness ==
  /\ InheritedGet /\ last.name = "engine"
  /\ HasOwnProvider(injectors[last.inj], "power")
  /\ last.val.deps = <<Val(1184)>>
  /\ GetR(World, last.inj, "power", TRUE, MaxDepth).val = Val(999)

\* some name of the list equals no entry name of the registry injector i
\* sees and is in the $scope list of no factory or type entry of it
RECURSIVE ScopeTagged(_, _, _)
ScopeTagged(i, keys, n) ==
  IF keys = <<>> THEN FALSE
  ELSE n \in TaggedScopes(ChainProvider(World, i, Head(keys)), <<n>>)
         \/ ScopeTagged(i, Tail(keys), n)

UnknownName(i, names) ==
  \E k \in 1..Len(names) :
    /\ ~ChainHas(World, i, names[k])
    /\ ~ScopeTagged(i, ForInNames(World, i, <<>>), names[k])

\* C8: createChild with a name that is no registry entry and no scope tag
\* raises UnknownScopeError
C8_UnknownScope ==
  (last.op = "createChild" /\ UnknownName(last.inj, last.names)) =>
    (~last.ok /\ last.err = "UnknownScopeError")

\* the modules the root injector loaded, in the order it loaded them
LoadOrder ==
  [k \in 1..Len(injectors[1].initializers) |-> injectors[1].initializers[k].mod.id]

\* the declaration of x in module m
DeclOfX(m) == decls[m].keys[CHOOSE k \in 1..Len(decls[m].keys) : decls[m].keys[k].name = "x"]

\* the module loaded last among those that declare x (each of m1..m4 does)
Winner == LoadOrder[Len(LoadOrder)]

\* C9: the provider the injector holds for x is the declaration of the module
\* loaded last; get('x') returns that declaration's literal, or the one
\* object made from that declaration's callable, and no other object is made
C9_LastWins ==
  injectors # <<>> =>
    /\ OwnProvider(injectors[1], "x").kind = DeclOfX(Winner).kind
    /\ OwnProvider(injectors[1], "x").fn = DeclOfX(Winner).fn
    /\ MadeFor(injectors[1], "x") <= 1
    /\ HasInstance(1, "x") =>
         IF DeclOfX(Winner).kind = "value"
         THEN injectors[1].instances["x"] = Val(DeclOfX(Winner).value)
                /\ MadeFor(injectors[1], "x") = 0
         ELSE injectors[1].instances["x"].t = "obj"
                /\ injectors[1].instances["x"].fn = DeclOfX(Winner).fn
    /\ (last.op = "get" /\ last.name = "x") =>
         (last.ok /\ HasInstance(1, "x") /\ last.val = injectors[1].instances["x"])

\* get('x') returned the object of a type declaration that was loaded after
\* a factory declaration and a value declaration of x
C9_Witness ==
  /\ injectors # <<>>
  /\ last.op = "get" /\ last.name = "x" /\ last.ok
  /\ Len(LoadOrder) >= 3
  /\ DeclOfX(Winner).kind = "type" /\ last.val.fn = "X2"
  /\ \E j, k \in 1..(Len(LoadOrder) - 1) :
       DeclOfX(LoadOrder[j]).kind = "factory" /\ DeclOfX(LoadOrder[k]).kind = "value"

\* the modules reachable from a set of modules through __depends__ lists
RECURSIVE ReachFrom(_)
ReachFrom(ms) ==
  IF ms \cup UNION {Range(decls[m].depends) : m \in ms} = ms THEN ms
  ELSE ReachFrom(ms \cup UNION {Range(decls[m].depends) : m \in ms})

\* the module to load next when the modules of loaded are loaded: follow the
\* first module of the list that is not loaded, down its first dependencies
\* that are not loaded, to a module whose dependencies are all loaded
RECURSIVE FirstRequired(_, _)
FirstRequired(loaded, list) ==
  LET pending == SelectSeq(list, LAMBDA m : m \notin loaded)
  IN IF pending = <<>> THEN ""
     ELSE IF Range(decls[Head(pending)].depends) \subseteq loaded THEN Head(pending)
     ELSE FirstRequired(loaded, decls[Head(pending)].depends)

\* C10: the load order of a constructed injector holds every module
\* reachable from the top-level list exactly once, every module after the
\* modules of its __depends__, in first-required order
C10_LoadOrder ==
  injectors # <<>> =>
    /\ \A j, k \in 1..Len(LoadOrder) : j # k => LoadOrder[j] # LoadOrder[k]
    /\ Range(LoadOrder) = ReachFrom(Range(top))
    /\ \A k \in 1..Len(LoadOrder) : \A d \in Range(decls[LoadOrder[k]].depends) :
         IndexOf(d, LoadOrder) \in 1..(k - 1)
    /\ \A k \in 1..Len(LoadOrder) :
         LoadOrder[k] = FirstRequired(Range(SubSeq(LoadOrder, 1, k - 1)), top)

\* a diamond was loaded: a requires b and c, which both require d
C10_Witness ==
  /\ injectors # <<>>
  /\ Len(LoadOrder) = 4
  /\ \E a, b, c, d \in DepIds :
       /\ b # c
       /\ InSeq(b, decls[a].depends) /\ InSeq(c, decls[a].depends)
       /\ InSeq(d, decls[b].depends) /\ InSeq(d, decls[c].depends)

-----------------------------------------------------------------------------
(* init().                                                                 *)

IsPrefix(s, t) == Len(s) <= Len(t) /\ SubSeq(t, 1, Len(s)) = s

\* the initializer entries of the k-th module injector i loaded, as its
\* declaration lists them: a private module's start with the init() of its
\* injector, and its __init__ entries run on that injector
ModuleRun(i, k) ==
  LET e == injectors[i].initializers[k]
      m == ModuleOf(World, e.mod)
      acts == IF m.private THEN <<InitChild(e.target)>> \o m.init ELSE m.init
  IN [j \in 1..Len(acts) |-> Ran(e.target, acts[j])]

\* the entries of the first n modules injector i loaded, in load order
RECURSIVE RunUpTo(_, _)
RunUpTo(i, n) == IF n = 0 THEN <<>> ELSE RunUpTo(i, n - 1) \o ModuleRun(i, n)

ExpectedRun(i) == RunUpTo(i, Len(injectors[i].initializers))

\* C11: what an injector's init() calls have run is a prefix of its modules'
\* initializer entries in load order, each once (all of them when the first
\* call returned, none before the first call); once init() was called,
\* no call runs an initializer entry of the injector again, and a later
\* init() returns without changing any injector
C11_InitOnce ==
  /\ [](\A i \in 1..Len(injectors) :
          /\ IsPrefix(injectors[i].ran, ExpectedRun(i))
          /\ (~injectors[i].initialized => injectors[i].ran = <<>>)
          /\ (last.op = "init" /\ last.inj = i /\ last.ok /\ ~last.again
                => injectors[i].ran = ExpectedRun(i)))
  /\ [][\A i \in 1..Len(injectors) :
          injectors[i].initialized =>
            i <= Len(injectors') /\ injectors'[i].ran = injectors[i].ran]_vars
  /\ [][last'.again => last'.ok /\ injectors' = injectors]_vars

\* a second init() of the root returned; the first had run all four entries
\* of its two modules, one of which called init() itself
C11_Witness ==
  /\ last.op = "init" /\ last.again /\ last.inj = 1
  /\ Len(injectors[1].ran) = 4
  /\ injectors[1].ran = ExpectedRun(1)
  /\ \E k \in 1..4 : injectors[1].ran[k].act.t = "reenter"

-----------------------------------------------------------------------------
(* The resolution stack after a call.                                      *)

ResolutionErrors == {"NoProviderError", "CircularDependencyError", "InvalidCallableError"}

\* the call was a get, invoke or instantiate that raised a resolution error
RaisedResolving ==
  /\ last.op \in {"get", "invoke", "instantiate"}
  /\ ~last.ok
  /\ last.err \in ResolutionErrors

\* C12: after a get/invoke/instantiate call raised NoProviderError,
\* CircularDependencyError or InvalidCallableError, the resolution stack of
\* the injector the call was made on is empty
C12_ErrorClears ==
  RaisedResolving => injectors[last.inj].stack = <<>>

-----------------------------------------------------------------------------
(* Dotted names.                                                           *)

\* what a plain get of the first part of the dotted name, made on the same
\* injector in place of the call, would have done
PlainGet(i, name) == GetR(World, i, Head(Split(name)), TRUE, MaxDepth)

\* C13: get('cfg.b.c'), where no provider is registered for the dotted name
\* and cfg is the literal {b: {c: 7}}, returns the field b.c (7) of the
\* instance a plain get('cfg') returns, changes the injectors exactly as the
\* plain get('cfg') does, and no cache holds the dotted name afterwards
C13_Dotted ==
  [][(last'.op = "get" /\ last'.name = "cfg.b.c") =>
       /\ last'.ok
       /\ PlainGet(last'.inj, "cfg.b.c").ok
       /\ last'.val = Field(Field(PlainGet(last'.inj, "cfg.b.c").val, "b"), "c")
       /\ last'.val = Val(7)
       /\ injectors' = PlainGet(last'.inj, "cfg.b.c").w.inj
       /\ \A j \in 1..Len(injectors') :
            /\ "cfg.b.c" \notin DOMAIN injectors'[j].instances
            /\ ~ChainHas(World, j, "cfg.b.c")]_vars

\* get('cfg.b.c') on a child returned 7 and left cfg in the root's cache, not
\* in the child's
C13_Witness ==
  /\ last.op = "get" /\ last.name = "cfg.b.c" /\ last.ok /\ last.val = Val(7)
  /\ last.inj # 1
  /\ "cfg" \in DOMAIN injectors[1].instances
  /\ "cfg" \notin DOMAIN injectors[last.inj].instances

-----------------------------------------------------------------------------
(* The car example.                                                        *)

\* C14: on the injector of the car example, get('car') and get('engine')
\* succeed and return the cached instances; the car was constructed by Car
\* with the cached engine, the engine was produced by createPetrolEngine
\* with power 1184, and a callable taking car is invoked with the cached car
C14_CarExample ==
  LET c == injectors[1].instances IN
  /\ "car" \in DOMAIN c =>
        "engine" \in DOMAIN c /\ c["car"].fn = "Car" /\ c["car"].deps = <<c["engine"]>>
  /\ "engine" \in DOMAIN c =>
        c["engine"].fn = "createPetrolEngine" /\ c["engine"].deps = <<Val(1184)>>
  /\ (last.op = "get" /\ last.inj = 1 /\ last.name \in {"car", "engine"}) =>
        last.ok /\ last.name \in DOMAIN c /\ last.val = c[last.name]
  /\ (last.op = "invoke" /\ last.inj = 1 /\ last.fn = "UseCar") =>
        last.ok /\ "car" \in DOMAIN c /\ last.val.fn = "UseCar" /\ last.val.deps = <<c["car"]>>

\* invoke of the callable taking car returned on the root, whose car holds
\* the one engine made with power 1184
C14_Witness ==
  /\ last.op = "invoke" /\ last.inj = 1 /\ last.fn = "UseCar" /\ last.ok
  /\ last.val.deps[1].deps[1].deps = <<Val(1184)>>
  /\ last.val.deps[1] = injectors[1].instances["car"]

-----------------------------------------------------------------------------
(* Laziness.                                                               *)

\* injector i has instantiated nothing
NothingMade(inj, i) == DOMAIN inj[i].instances = {"injector"} /\ inj[i].made = <<>>

\* the names the initializer entries of injector i ask for
RECURSIVE InitAsks(_)
InitAsks(i) ==
  UNION { CASE e.act.t = "name" -> {e.act.name}
            [] e.act.t = "initchild" -> InitAsks(e.act.inj)
            [] OTHER -> Range(Fns[e.act.fn].params)
          : e \in Range(ExpectedRun(i)) }

\* the names a set of names reaches through the parameters of the callables
\* registered for them
RECURSIVE ReachedFrom(_)
ReachedFrom(S) ==
  LET more == UNION { Range(Fns[p.fn].params) :
                      p \in { q \in UNION {Range(injectors[j].providers) : j \in 1..Len(injectors)} :
                               q.name \in S /\ q.fn # "" } }
  IN IF more \subseteq S THEN S ELSE ReachedFrom(S \cup more)

\* a factory is registered whose parameter has no provider anywhere
BrokenRegistered ==
  /\ HasOwnProvider(injectors[1], "broken")
  /\ \A j \in 1..Len(injectors) : ~HasOwnProvider(injectors[j], "nothere")

-----------------------------------------------------------------------------
(* A parent and a child that declares names of its own.                    *)

\* injector c is a child the caller made of the root with the module that
\* declares power (as 999) and turbo (as 2)
ShadowChild(c) ==
  /\ c \in Injectors /\ injectors[c].parent = 1 /\ injectors[c].forced = <<>>
  /\ OwnNames(injectors[c]) = {"power", "turbo"}

\* what a get of name on the root would return or raise
ParentAnswer(w, name) ==
  LET r == GetR(w, 1, name, TRUE, MaxDepth) IN [ok |-> r.ok, val |-> r.val, err |-> r.err]

\* a name both modules declare, one only the child's declares, one neither
\* declares, and one only the root's declares, which the child delegates
AskedOfParent == {"power", "turbo", "missing", "car"}

\* the world after the step
WorldAfter == [decls |-> decls', inj |-> injectors', inject |-> inject', nsyn |-> nsyn']

\* C16: power, declared by the root's module and by the child's, resolves
\* to the child's declaration (999) in the child and to the root's (1184) in
\* the root; turbo, declared by the child's module only, resolves in the
\* child and raises NoProviderError in the root; a name neither declares
\* raises NoProviderError in both; no call on the child changes what a get
\* on the root returns or raises
C16_Shadowing ==
  /\ [](last.op = "get" /\ last.strict /\ (last.inj = 1 \/ ShadowChild(last.inj)) =>
          /\ last.name = "power" =>
                last.ok /\ last.val = Val(IF last.inj = 1 THEN 1184 ELSE 999)
          /\ last.name = "turbo" =>
                IF last.inj = 1 THEN ~last.ok /\ last.err = "NoProviderError"
                ELSE last.ok /\ last.val = Val(2)
          /\ last.name = "missing" => ~last.ok /\ last.err = "NoProviderError")
  /\ [][(last'.op \in {"get", "invoke", "instantiate"} /\ ShadowChild(last'.inj)) =>
          \A n \in AskedOfParent : ParentAnswer(WorldAfter, n) = ParentAnswer(World, n)]_vars

\* the child resolved power to 999 while the root's cache holds 1184
C16_Witness ==
  /\ last.op = "get" /\ last.name = "power" /\ ShadowChild(last.inj)
  /\ last.ok /\ last.val = Val(999)
  /\ "power" \in DOMAIN injectors[1].instances
  /\ injectors[1].instances["power"] = Val(1184)
  /\ "turbo" \in DOMAIN injectors[last.inj].instances

-----------------------------------------------------------------------------
(* What calls leave alone.                                                 *)

\* C17: a call (get, invoke, instantiate, init or createChild, on any
\* injector the caller holds) leaves every existing injector in place with
\* its own provider entries as they were and its cache entries as they
\* were; the entries a cache gains are for names the injector has an own
\* provider for, and a createChild call adds none
C17_Frame ==
  [][\A i \in 1..Len(injectors) :
       /\ i <= Len(injectors')
       /\ injectors'[i].providers = injectors[i].providers
       /\ injectors'[i].parent = injectors[i].parent
       /\ \A n \in DOMAIN injectors[i].instances :
            /\ n \in DOMAIN injectors'[i].instances
            /\ injectors'[i].instances[n] = injectors[i].instances[n]
       /\ \A n \in DOMAIN injectors'[i].instances \ DOMAIN injectors[i].instances :
            /\ HasOwnProvider(injectors[i], n)
            /\ last'.op \in {"get", "invoke", "instantiate", "init"}]_vars

\* a createChild with a forced name returned on a root whose private
\* injector and whose own cache hold instances
C17_Witness ==
  /\ last.op = "createChild" /\ last.ok /\ last.names # <<>>
  /\ \E i \in 2..Len(injectors) :
       injectors[i].parent = 1 /\ ~injectors[i].api
       /\ "hid" \in DOMAIN injectors[i].instances
  /\ "exp" \in DOMAIN injectors[1].instances
  /\ injectors[1].initialized

\* C18: between calls (every state of the caller is between two calls) the
\* resolution stack of every injector is empty
C18_StackEmpty ==
  \A i \in 1..Len(injectors) : injectors[i].stack = <<>>

\* C19: a get of boom, whose factory takes nothing and throws, raises the
\* factory's own error every time, leaves no cache entry for boom and leaves
\* every resolution stack as it was before the call
C19_ThrowingProvider ==
  [][(last'.op = "get" /\ last'.name = "boom") =>
       /\ ~last'.ok /\ last'.err = "Thrown"
       /\ \A i \in 1..Len(injectors) :
            /\ "boom" \notin DOMAIN injectors'[i].instances
            /\ injectors'[i].stack = injectors[i].stack]_vars

-----------------------------------------------------------------------------
(* The chain of NoProviderError.                                           *)

\* C20: when no name was in flight or left on a stack before the call, the
\* chain of the NoProviderError a get raises starts with the name asked for
\* (the first part of a dotted name) and ends with the name that has no
\* provider; for broken, whose factory
\* takes the unprovided nothere, it is broken -> nothere, on the root and on
\* a child that resolves broken itself
C20_MissChain ==
  [][(/\ last'.op = "get" /\ ~last'.ok /\ last'.err = "NoProviderError"
      /\ \A i \in 1..Len(injectors) : injectors[i].stack = <<>>) =>
       /\ last'.chain # <<>>
       /\ Head(last'.chain) = Head(Split(last'.name))
       /\ ~ChainHas(World, last'.inj, last'.chain[Len(last'.chain)])
       /\ last'.name = "broken" => last'.chain = <<"broken", "nothere">>]_vars

-----------------------------------------------------------------------------
(* Termination.                                                            *)

\* what a get the caller can make next would return or raise
NextGet(i, n, s) == GetR(World, i, n, s, MaxDepth)

\* C21: in every state, no get the caller can make exhausts the call stack,
\* and none did; a get of xe (exported by a private module, its factory
\* takes od) or of od (declared by the outer module, its factory takes xe)
\* raises CircularDependencyError, on the root and on its children
C21_GetTerminates ==
  /\ last.op \in {"get", "invoke", "instantiate"} => last.err # "RangeError"
  /\ \A i \in Injectors, n \in ApiNames : \A s \in Flags(n) :
       /\ NextGet(i, n, s).err # "RangeError"
       /\ n \in {"xe", "od"} =>
            ~NextGet(i, n, s).ok /\ NextGet(i, n, s).err = "CircularDependencyError"

\* get('xe') on the root raised CircularDependencyError with the chain of
\* the root: xe was forwarded to the private injector, od came back to the
\* root and asked for xe again
C21_Witness ==
  /\ last.op = "get" /\ last.name = "xe" /\ last.inj = 1
  /\ last.err = "CircularDependencyError"
  /\ last.chain = <<"xe", "od", "xe">>

\* C22: a createChild call with a non-empty name list returns an injector or
\* raises UnknownScopeError
C22_CreateChildTerminates ==
  (last.op = "createChild" /\ last.names # <<>>) =>
    last.ok \/ last.err = "UnknownScopeError"

\* C23: new Injector returns for every declaration graph, also when
\* __depends__ lists refer to each other cyclically, and its load order then
\* holds every module reachable from the top-level list exactly once
C23_FlattenTerminates ==
  last.op = "new" =>
    /\ last.ok
    /\ Range(LoadOrder) = ReachFrom(Range(last.names))
    /\ \A j, k \in 1..Len(LoadOrder) : j # k => LoadOrder[j] # LoadOrder[k]

-----------------------------------------------------------------------------
(* The initializer of a private module.                                    *)

\* the entries of the run record of injector i that are __init__ entries of a
\* private module, run on the module's injector
PrivateEntries(i) ==
  {k \in 1..Len(injectors[i].ran) :
     injectors[i].ran[k].target # i /\ injectors[i].ran[k].act.t # "initchild"}

\* C24: when an __init__ entry of a private module starts, the init() of the
\* module's injector has been called and has run all initializer entries of
\* that injector; the entry is resolved on the module's injector: the
\* non-exported name it asks for is cached there once it has run, and never
\* in the injector the module was loaded into
C24_PrivateInit ==
  \A i \in 1..Len(injectors) :
    /\ Len(injectors[i].seen) = Len(injectors[i].ran)
    /\ \A k \in PrivateEntries(i) :
         LET e == injectors[i].ran[k] IN
         /\ injectors[i].seen[k].initialized
         /\ injectors[i].seen[k].done = Len(ExpectedRun(e.target))
         /\ \E j \in 1..(k - 1) : injectors[i].ran[j] = Ran(e.target, InitChild(e.target))
         /\ injectors[e.target].parent = i
         /\ (e.act.t = "name" /\ (k < Len(injectors[i].ran) \/ (last.op = "init" /\ last.ok))) =>
              /\ e.act.name \in DOMAIN injectors[e.target].instances
              /\ (e.act.name \notin Declared(i) => e.act.name \notin DOMAIN injectors[i].instances)

\* init() of the root returned after it ran the entry of the private module
\* that names hid, which the module does not export: the private injector
\* had run its own entry (nhid) before, and holds hid
C24_Witness ==
  /\ last.op = "init" /\ last.ok /\ ~last.again /\ last.inj = 1
  /\ \E k \in PrivateEntries(1) :
       LET e == injectors[1].ran[k] IN
       /\ e.act = InitName("hid")
       /\ "hid" \notin Declared(1)
       /\ "hid" \in DOMAIN injectors[e.target].instances
       /\ injectors[e.target].ran = <<Ran(e.target, InitName("nhid"))>>
       /\ injectors[1].seen[k].done = 1

-----------------------------------------------------------------------------
(* createChild with the exports of a private module.                       *)

\* injector c is a child the caller made of the root with both exports of
\* the private module in the name list
ForcedPair(c) ==
  c \in Injectors /\ injectors[c].parent = 1 /\ injectors[c].forced = <<"ea", "eb">>

\* the private injector of the module the root loaded
PairInjector == OwnProvider(injectors[1], "ea").pinj

\* the injector the child's record of an export forwards to
ScopedChild(c, n) == OwnProvider(injectors[c], n).pinj

-----------------------------------------------------------------------------
(* createChild with a scope tag.                                           *)

\* injector c is a child the caller made of the root with the scope tag as
\* the only name
ScopeChild(c) ==
  c \in Injectors /\ injectors[c].parent = 1 /\ injectors[c].forced = <<"req">>

\* C26: no provider is named "req" and the factory "tg" declares the scope
\* "req": createChild([], ["req"]) does not raise, the child has an entry
\* of its own for "tg" and returns for it an instance it made itself, which
\* is not the root's; the untagged type "plainf" gets no entry and no
\* instance in the child, which returns the root's instance for it
C26_ScopeTag ==
  /\ (last.op = "createChild" /\ last.names = <<"req">>) =>
        /\ ~ChainHas(World, last.inj, "req")
        /\ last.ok
  /\ \A c \in Injectors : ScopeChild(c) =>
        /\ HasOwnProvider(injectors[c], "tg")
        /\ ~HasOwnProvider(injectors[c], "plainf")
        /\ "plainf" \notin DOMAIN injectors[c].instances
        /\ "tg" \in DOMAIN injectors[c].instances =>
             /\ injectors[c].instances["tg"].by = c
             /\ "tg" \in DOMAIN injectors[1].instances =>
                  injectors[1].instances["tg"] # injectors[c].instances["tg"]
        /\ (last.op = "get" /\ last.inj = c /\ last.ok) =>
             /\ last.name = "tg" => last.val = injectors[c].instances["tg"]
             /\ last.name = "plainf" => last.val = injectors[1].instances["plainf"]

\* the child returned the root's "plainf" after it and the root each made
\* a "tg"
C26_Witness ==
  /\ ScopeChild(last.inj) /\ last.op = "get" /\ last.name = "plainf" /\ last.ok
  /\ "tg" \in DOMAIN injectors[last.inj].instances
  /\ "tg" \in DOMAIN injectors[1].instances

-----------------------------------------------------------------------------
(* createChild on an injector that inherits the requested name.            *)

\* C27: createChild with a name list looks only at the entries the injector
\* it is called on has itself: a name of the list that only an ancestor
\* registers matches nothing, so the call raises UnknownScopeError, and no
\* child has an entry copied for a listed name its parent has no entry for
C27_OwnEntriesOnly ==
  /\ (last.op = "createChild"
        /\ \E k \in 1..Len(last.names) : ~HasOwnProvider(injectors[last.inj], last.names[k])) =>
        (~last.ok /\ last.err = "UnknownScopeError")
  /\ \A c \in Injectors : \A n \in Range(injectors[c].forced) :
        (injectors[c].parent # 0 /\ HasOwnProvider(injectors[c], n)) =>
          HasOwnProvider(injectors[injectors[c].parent], n)

-----------------------------------------------------------------------------
(* A provider registered under a dotted name in an ancestor.               *)

\* what resolving the first part of name in injector i and reading the
\* remaining parts off the result gives
Navigated(i, name) ==
  LET first == GetR(World, i, Head(Split(name)), TRUE, MaxDepth)
  IN Navigate(first.w, first.val, Tail(Split(name)))

\* C28: get of a dotted name on an injector that has no entry of its own
\* under the full name returns what resolving the first part and reading
\* the remaining parts off it gives, also when an ancestor has a provider
\* under the full dotted name
C28_DottedNavigates ==
  (/\ last.op = "get" /\ IsDotted(last.name) /\ last.ok
   /\ ~HasOwnProvider(injectors[last.inj], last.name)) =>
     last.val = Navigated(last.inj, last.name).val

-----------------------------------------------------------------------------
(* The strict flag of a dotted lookup.                                     *)

-----------------------------------------------------------------------------
(* invoke with locals.                                                     *)

\* the names some injector holds a cached instance for
CachedNames == UNION {DOMAIN injectors[i].instances : i \in 1..Len(injectors)}

\* the step is an invoke call with the given callable and locals
InvokeStep(fn, locals) ==
  last.op = "none" /\ last'.op = "invoke" /\ last'.fn = fn /\ last'.locals = locals

\* C30: invoke passes the locals value for every dependency name that is
\* a key of locals and does not ask get for it: with both names given,
\* "dep", which has a provider, and "ghost", which has none, the call
\* returns, the callable gets the two values and no injector changes; a
\* name that is not given resolves through get, "ghost" still gets no cache
\* entry, and the resolved component is wired to the instance its provider's
\* injector made for "dep", not to the locals value; without locals the
\* missing provider of "ghost" makes the call fail
C30_Locals ==
  [][ /\ InvokeStep("UseGiven", GivenLocals) =>
           /\ last'.ok
           /\ last'.val.deps = <<Val(41), Val(42)>>
           /\ injectors' = injectors
      /\ InvokeStep("UseLoc", GivenLocals) =>
           /\ last'.ok
           /\ last'.val.deps[2] = Val(42)
           /\ last'.val.deps[1] = GetR(World, last'.inj, "svc", TRUE, MaxDepth).val
           /\ last'.val.deps[1].deps # <<Val(41)>>
           /\ last'.val.deps[1].deps[1].t = "obj"
           /\ last'.val.deps[1].deps[1].fn = "Dep"
           /\ "ghost" \notin CachedNames'
      /\ (\E f \in ApiFns : InvokeStep(f, NoLocals)) =>
           (~last'.ok /\ last'.err = "NoProviderError")
    ]_vars

\* a child with a provider of its own for "dep" was given both locals and
\* resolved "svc"; nothing holds an instance for "ghost"
C30_Witness ==
  /\ last.op = "invoke" /\ last.fn = "UseLoc" /\ last.locals = GivenLocals /\ last.ok
  /\ last.inj # 1
  /\ HasOwnProvider(injectors[last.inj], "dep")
  /\ {"svc", "dep"} \subseteq CachedNames
  /\ "ghost" \notin CachedNames

-----------------------------------------------------------------------------
(* One module list passed to several createChild calls.                    *)

\* C31: createChild leaves nothing in the list the caller passed: the list
\* stays as the caller wrote it, every child has entries of its own for
\* exactly the names of its own call, and for any other name it returns
\* what its parent returns
C31_ListUntouched ==
  /\ shared = <<>>
  /\ \A c \in Injectors : injectors[c].parent # 0 =>
        OwnNames(injectors[c]) = Range(injectors[c].forced)
  /\ (/\ last.op = "get" /\ last.ok /\ last.inj # 1
      /\ last.name \notin Range(injectors[last.inj].forced)) =>
        last.val = GetR(World, injectors[last.inj].parent, last.name, last.strict, MaxDepth).val

-----------------------------------------------------------------------------
(* Inline [name..., callable] pairs that share one callable.               *)

\* the values the providers of the names hold
ValuesOf(names) == [k \in 1..Len(names) |-> Val(IF names[k] = "x" THEN 1 ELSE 2)]

\* the name list of the inline pair the top module declares under name
DeclaredFor(name) ==
  LET keys == decls["inlineModule"].keys
  IN keys[CHOOSE k \in 1..Len(keys) : keys[k].name = name].arr.names

\* C32: a provider declared with an inline pair is given the values of the
\* names of its own pair, in order, and an invoke or instantiate call with
\* an inline pair the values of the names of the pair of the call, whatever
\* other pairs with the same callable were declared or called
C32_OwnNames ==
  /\ (last.op = "get" /\ last.ok /\ last.name \in {"pa", "pb"}) =>
        last.val.deps = ValuesOf(DeclaredFor(last.name))
  /\ (last.op \in {"invoke", "instantiate"} /\ last.ok /\ last.names # <<>>) =>
        last.val.deps = ValuesOf(last.names)

====
